---- MODULE Spec2Model ----
(***************************************************************************)
(* State-machine model of morfist (src/morfist/core.py): the split search  *)
(* of MixedSplitter, the breadth-first node growing of MixedRandomTree and *)
(* the bootstrap / vote aggregation of MixedRandomForest, the resolution   *)
(* of max_features by the two MixedSplitter classes (core.py and           *)
(* core/MixedSplitter.py) and the fold loop of cross_validation.           *)
(*                                                                         *)
(* Conventions                                                             *)
(*  - Feature indices, target indices and node ids are 0-based as in the   *)
(*    code; a Python list `a` is a sequence and a[k] is At(a, k).          *)
(*  - Python None is the value None (-1); Truthy(f) is the truth value     *)
(*    Python gives `if f:` (None and 0 are both false).                    *)
(*  - A feature value v stands for the float64 2^52 + v.  The floats of   *)
(*    that range are the integers, so two values can be neighbouring       *)
(*    floats (v, v + 1) or further apart, and the threshold (a + b) / 2 is *)
(*    computed as float64 computes it (see Midpoint).                      *)
(*  - A target value is a fraction <<num, den>> (numpy's float), so that   *)
(*    the mean of a regression target is exact; NaN is <<0, 0>>.           *)
(*  - The finite gain computed by __impurity_split (entropy arithmetic on  *)
(*    floats) is drawn from Gains: every ordering of the gains of the      *)
(*    candidates, ties included, is explored.  The +inf of line 122 and    *)
(*    the -inf of line 40 are PosInf and NegInf.                           *)
(***************************************************************************)
EXTENDS Integers, Sequences, FiniteSets, TLC

\* ---------------------------------------------------------------- bounds
NFeatures == 2          \* columns of x
MaxVal == 3             \* feature values of the tree specification are 0..MaxVal
TreeRows == 3           \* rows of the training set of the tree specification
TreeMaxLabel == 0       \* target values of the tree specification are 0..TreeMaxLabel
MaxMinLeaf == 2         \* min_samples_leaf is 1..MaxMinLeaf
MaxNodes == 7           \* fit is followed for at most MaxNodes nodes
MaxLiteral == 1         \* a literal max_features of the tree specification is 1..MaxLiteral
ForestRows == 2         \* rows of the training set of the forest specification
ForestMaxVal == 1       \* feature values of the forest specification are 0..ForestMaxVal
MaxTargets == 2         \* y has 1..MaxTargets columns
MaxLabel == 1           \* target values of the forest specification are 0..MaxLabel
MaxEstimators == 3      \* n_estimators is 1..MaxEstimators
MaxFeatureCount == 9    \* a splitter is built on 1..MaxFeatureCount columns
MaxSplitCalls == 3      \* split is called at most MaxSplitCalls times on one splitter
FractionDen == 4        \* a float max_features is q / FractionDen, q in 1..FractionDen
MaxCVRows == 4          \* cross_validation is given folds..MaxCVRows rows
MaxFolds == 3           \* cross_validation is given 2..MaxFolds folds

\* ------------------------------------------------------------- constants
None == 0 - 1
PosInf == 1000
NegInf == 0 - 1000
Gains == {0, 1}

\* ------------------------------------------------------------- utilities
At(a, k) == a[k + 1]

Truthy(f) == f # None /\ f # 0

RECURSIVE SumOver(_, _)
SumOver(S, g) ==
    IF S = {} THEN 0
    ELSE LET e == CHOOSE e \in S : TRUE IN g[e] + SumOver(S \ {e}, g)

Max(S) == CHOOSE m \in S : \A e \in S : e <= m
Min(S) == CHOOSE m \in S : \A e \in S : m <= e

RECURSIVE GCD(_, _)
GCD(a, b) == IF b = 0 THEN a ELSE GCD(b, a % b)

\* 0 / 0 and every value computed from it
NaN == <<0, 0>>

\* the fraction n / d in lowest terms (d >= 0)
Frac(n, d) ==
    IF d = 0 THEN NaN
    ELSE LET g == GCD(n, d) IN <<n \div g, d \div g>>

\* numpy astype(int) of a non-negative float
AsInt(v) == v[1] \div v[2]

\* sorted sequence of the elements of a finite set of integers (np.unique)
RECURSIVE Sorted(_)
Sorted(S) == IF S = {} THEN <<>> ELSE <<Min(S)>> \o Sorted(S \ {Min(S)})

\* ----------------------------------------------------------------- state
VARIABLES
    pc,                 \* where the program is: idle, fit_called, forest_loop,
                        \* tree_loop, tree_done, raised
    n_estimators,       \* MixedRandomForest.n_estimators
    min_samples_leaf,   \* min_samples_leaf of forest, tree and splitter
    max_features,       \* max_features as configured: "sqrt" or an integer
    class_targets,      \* classification target indices
    n_targets,          \* MixedRandomForest.n_targets
    class_labels,       \* MixedRandomForest.class_labels: target |-> set of labels
    estimators,         \* MixedRandomForest.estimators
    x, y,               \* the training set of the last MixedRandomForest.fit call
    est_i,              \* loop index of MixedRandomForest.fit
    tx, ty,             \* the training set handed to MixedRandomTree.fit
    tree_n_targets,     \* MixedRandomTree.n_targets
    splitter_max_features, \* MixedSplitter.max_features (resolved at the first split)
    split_queue,        \* local split_queue of MixedRandomTree.fit (row subsets)
    split_f, split_t, leaf_value, left_child, right_child, n_i,
    i,                  \* node counter of MixedRandomTree.fit
    node_rows,          \* history: the row subset dequeued for each node
    m,                  \* the tree object: fields f, t, v, l, r, n
    pred,               \* result of the last predict / predict_proba call
    splitter_impl,      \* the file of the MixedSplitter class in use
    splitter_n_features, \* MixedSplitter.n_features of a splitter built on its own
    n_split_calls,      \* calls of MixedSplitter.split on that splitter
    cv_n,               \* cross_validation: x.shape[0]
    folds,              \* cross_validation: folds
    cv_idx,             \* cross_validation: idx, the permutation of the rows
    fold_size,          \* cross_validation: fold_size
    fold_i,             \* cross_validation: loop index i
    train_rows,         \* history: train_idx of each fold done, as a set
    test_rows           \* history: test_idx of each fold done, as a set

cfg_vars == <<n_estimators, min_samples_leaf, max_features, class_targets>>
forest_vars == <<n_targets, class_labels, estimators, x, y, est_i>>
tree_vars == <<tx, ty, tree_n_targets, splitter_max_features, split_queue, split_f,
               split_t, leaf_value, left_child, right_child, n_i, i, node_rows, m>>
splitter_vars == <<splitter_impl, splitter_n_features, n_split_calls>>
cv_vars == <<cv_n, folds, cv_idx, fold_size, fold_i, train_rows, test_rows>>
vars == <<pc, cfg_vars, forest_vars, tree_vars, pred, splitter_vars, cv_vars>>

n_features == NFeatures

Features == 0 .. (n_features - 1)
FeatureRows == [Features -> 0 .. MaxVal]

\* the value of max_features: a tag or a literal integer
Sqrt == [tag |-> "sqrt", n |-> 0]
Literal(k) == [tag |-> "int", n |-> k]

\* ------------------------------------------------------- MixedSplitter
CeilSqrt(n) == Min({k \in 0 .. n : k * k >= n})

\* core.py split(), lines 26-27, on n columns: 'sqrt' becomes an integer, any
\* other value of max_features is left as it is
core_resolve(mf, n) ==
    IF mf.tag = "sqrt" THEN Literal(CeilSqrt(n)) ELSE mf

\* split(), lines 26-27: max_features after the resolution of 'sqrt'
ResolveMaxFeatures(mf) == core_resolve(mf, n_features)

\* np.unique(x[:, f]) over the rows of a subset
Unique(sub, f) == Sorted({tx[r][f] : r \in sub})

\* float64 (a + b) / 2 for a = 2^52 + va, b = 2^52 + vb, as an offset from
\* 2^52: the sum is exact when va + vb is even, else it is a tie between two
\* floats of the next binade and goes to the one with the even significand
Midpoint(va, vb) ==
    LET sum == va + vb
        low == sum \div 2
    IN IF sum % 2 = 0 THEN low
       ELSE IF low % 2 = 0 THEN low ELSE low + 1

\* (values[:-1] + values[1:]) / 2
Midpoints(values) ==
    [k \in 1 .. (Len(values) - 1) |-> Midpoint(values[k], values[k + 1])]

\* rows of a subset with x[:, f] <= t and with x[:, f] > t
LeftIdx(sub, f, t) == {r \in sub : tx[r][f] <= t}
RightIdx(sub, f, t) == {r \in sub : tx[r][f] > t}

\* __impurity_split: +inf when a side is too small, else the gain
impurity_split(n_left, n_right, gain) ==
    IF n_left < min_samples_leaf \/ n_right < min_samples_leaf
    THEN PosInf
    ELSE gain

try_split(sub, f, t, gain) ==
    impurity_split(Cardinality(LeftIdx(sub, f, t)), Cardinality(RightIdx(sub, f, t)), gain)

\* np.random.choice(arange(n_features), k, replace=False): ordered, distinct
FeatureDraws(k) ==
    {s \in [1 .. k -> Features] : \A a, b \in 1 .. k : a # b => s[a] # s[b]}

\* np.random.choice(values, min(2, values.size)) on the midpoints of feature f;
\* the empty draw stands for `continue` (fewer than 2 distinct values)
ThresholdDraws(sub, f) ==
    LET values == Unique(sub, f) IN
    IF Len(values) < 2 THEN {<<>>}
    ELSE LET mids == Midpoints(values)
             size == IF Len(mids) < 2 THEN Len(mids) ELSE 2
         IN [1 .. size -> {mids[k] : k \in 1 .. Len(mids)}]

RECURSIVE PickDraws(_, _)
PickDraws(sub, try_features) ==
    IF try_features = <<>> THEN {<<>>}
    ELSE {<<p>> \o rest : p \in ThresholdDraws(sub, Head(try_features)),
                          rest \in PickDraws(sub, Tail(try_features))}

\* the (feature, value) pairs in the order the two loops of lines 50-65 visit them
RECURSIVE Candidates(_, _)
Candidates(try_features, picks) ==
    IF try_features = <<>> THEN <<>>
    ELSE [k \in 1 .. Len(Head(picks)) |-> <<Head(try_features), Head(picks)[k]>>]
         \o Candidates(Tail(try_features), Tail(picks))

\* lines 62-65: keep the first candidate whose impurity is strictly greater
RECURSIVE Scan(_, _, _, _, _)
Scan(sub, cands, gains, k, best) ==
    IF k > Len(cands) THEN best
    ELSE LET f == cands[k][1]
             v == cands[k][2]
             imp == try_split(sub, f, v, gains[k])
         IN Scan(sub, cands, gains, k + 1, IF imp > best[3] THEN <<f, v, imp>> ELSE best)

\* __find_best_split under one outcome of the random draws
find_best_split(sub, try_features, picks, gains) ==
    IF Cardinality(sub) <= min_samples_leaf
    THEN <<None, None, PosInf>>
    ELSE Scan(sub, Candidates(try_features, picks), gains, 1, <<None, None, NegInf>>)

\* ----------------------------------------------------- MixedRandomTree
\* np.bincount(values, minlength): counts of 0 .. max(values), at least minlength
\* entries; S indexes the values g[e]
BinCount(S, g, minlength) ==
    LET top == IF S = {} THEN 0 ELSE Max({g[e] : e \in S}) + 1
        size == IF top < minlength THEN minlength ELSE top
    IN [k \in 1 .. size |-> Cardinality({e \in S : g[e] = k - 1})]

\* a slip: np.max for np.argmax
ArgMax_count(counts) == Max({counts[k] : k \in 1 .. Len(counts)})

\* np.argmax: the first (0-based) index holding the maximum
ArgMax(counts) ==
    Min({k \in 1 .. Len(counts) : \A j \in 1 .. Len(counts) : counts[j] <= counts[k]}) - 1

\* _make_leaf: most frequent label (classification), mean (regression)
make_leaf(sub) ==
    [t \in 0 .. (tree_n_targets - 1) |->
        IF t \in class_targets
        THEN <<ArgMax(BinCount(sub, [r \in sub |-> ty[r][t]], 0)), 1>>
        ELSE Frac(SumOver(sub, [r \in sub |-> ty[r][t]]), Cardinality(sub))]

\* no call has returned a value
NoPred == [call |-> "none", out |-> <<>>]

EmptyTree == [f |-> <<>>, t |-> <<>>, v |-> <<>>, l |-> <<>>, r |-> <<>>, n |-> <<>>]

\* the feature draws of one __find_best_split call: none when it returns on
\* line 33, before anything is drawn
TryFeatureDraws(sub, k) ==
    IF Cardinality(sub) <= min_samples_leaf THEN {<<>>} ELSE FeatureDraws(k)

\* fit, lines 163-183: the splitter is built, the queue holds the whole set
TreeFitStart(x_, y_) ==
    /\ tx' = x_
    /\ ty' = y_
    /\ tree_n_targets' = IF Len(y_) = 0 THEN 0 ELSE Cardinality(DOMAIN y_[1])
    /\ splitter_max_features' = max_features
    /\ split_queue' = <<1 .. Len(x_)>>
    /\ split_f' = <<>>
    /\ split_t' = <<>>
    /\ leaf_value' = <<>>
    /\ left_child' = <<>>
    /\ right_child' = <<>>
    /\ n_i' = <<>>
    /\ node_rows' = <<>>
    /\ i' = 0
    /\ m' = EmptyTree

\* a slip: heap numbering of the children
child_id_heap(i_, queue_len, k) == 2 * i_ + k

\* lines 196-197: the id of the k-th child (1 left, 2 right) of node i_ when
\* queue_len subsets are still waiting
child_id(i_, queue_len, k) == i_ + queue_len + k

\* _make_leaf raises ValueError (np.argmax of an empty np.bincount) when the
\* subset has no row and the tree has a classification target
MakeLeafRaises(sub) ==
    sub = {} /\ \E t \in 0 .. (tree_n_targets - 1) : t \in class_targets

\* fit, lines 185-209: one iteration of the while loop; the exception of
\* _make_leaf ends the call
FitStep ==
    /\ pc = "tree_loop"
    /\ Len(split_queue) > 0
    /\ i < MaxNodes
    /\ LET next == Head(split_queue)
           rest == Tail(split_queue)
           mf == ResolveMaxFeatures(splitter_max_features)
       IN IF MakeLeafRaises(next)
          THEN /\ pc' = "raised"
               /\ UNCHANGED <<splitter_max_features, leaf_value, n_i, node_rows, split_f,
                              split_t, left_child, right_child, split_queue, i>>
          ELSE
          \E try_features \in TryFeatureDraws(next, mf.n) :
          \E picks \in PickDraws(next, try_features) :
          \E gains \in [1 .. Len(Candidates(try_features, picks)) -> Gains] :
          \E res \in {find_best_split(next, try_features, picks, gains)} :
            LET f == res[1]
                t == res[2]
            IN /\ splitter_max_features' = mf
               /\ leaf_value' = Append(leaf_value, make_leaf(next))
               /\ n_i' = Append(n_i, Cardinality(next))
               /\ node_rows' = Append(node_rows, next)
               /\ split_f' = Append(split_f, f)
               /\ split_t' = Append(split_t, t)
               /\ left_child' = Append(left_child,
                                       IF Truthy(f) THEN child_id(i, Len(rest), 1) ELSE None)
               /\ right_child' = Append(right_child,
                                        IF Truthy(f) THEN child_id(i, Len(rest), 2) ELSE None)
               /\ split_queue' = IF Truthy(f)
                                 THEN rest \o <<LeftIdx(next, f, t), RightIdx(next, f, t)>>
                                 ELSE rest
               /\ i' = i + 1
               /\ pc' = pc
    /\ UNCHANGED <<splitter_vars, cv_vars, cfg_vars, forest_vars, tx, ty, tree_n_targets, m, pred>>

\* fit, lines 211-216: the queue is empty, the lists become the tree's arrays
FitEnd ==
    /\ pc = "tree_loop"
    /\ Len(split_queue) = 0
    /\ m' = [f |-> split_f, t |-> split_t, v |-> leaf_value,
             l |-> left_child, r |-> right_child, n |-> n_i]
    /\ pc' = "tree_done"
    /\ UNCHANGED <<splitter_vars, cv_vars, cfg_vars, forest_vars, tx, ty, tree_n_targets, splitter_max_features,
                   split_queue, split_f, split_t, leaf_value, left_child, right_child,
                   n_i, i, node_rows, pred>>

\* a slip: the two branches of traverse exchanged
RECURSIVE traverse_swapped(_, _, _)
traverse_swapped(tree, row, node_idx) ==
    IF node_idx < 0 \/ node_idx >= Len(tree.f) THEN None
    ELSE IF ~Truthy(At(tree.f, node_idx)) THEN node_idx
    ELSE IF row[At(tree.f, node_idx)] <= At(tree.t, node_idx)
         THEN traverse_swapped(tree, row, At(tree.r, node_idx))
         ELSE traverse_swapped(tree, row, At(tree.l, node_idx))

\* predict.traverse for one row: the node whose value the row receives;
\* None when a child id is no index of the arrays
RECURSIVE traverse(_, _, _)
traverse(tree, row, node_idx) ==
    IF node_idx < 0 \/ node_idx >= Len(tree.f) THEN None
    ELSE IF ~Truthy(At(tree.f, node_idx)) THEN node_idx
    ELSE IF row[At(tree.f, node_idx)] <= At(tree.t, node_idx)
         THEN traverse(tree, row, At(tree.l, node_idx))
         ELSE traverse(tree, row, At(tree.r, node_idx))

\* MixedRandomTree.predict for one row: the value vector of the node reached
tree_predict(tree, row) == At(tree.v, traverse(tree, row, 0))

\* y.reshape((y.size, 1)) when y.ndim == 1 (lines 163-164, 286-287)
Reshape(y_) ==
    IF y_.ndim = 1
    THEN [r \in 1 .. Len(y_.data) |-> [t \in {0} |-> y_.data[r]]]
    ELSE y_.data

Vector(data) == [ndim |-> 1, data |-> data]
Matrix(data) == [ndim |-> 2, data |-> data]

\* no splitter has been built on its own, cross_validation has not been called
NoSplitter ==
    /\ splitter_impl = "none"
    /\ splitter_n_features = 0
    /\ n_split_calls = 0

NoCrossValidation ==
    /\ cv_n = 0
    /\ folds = 0
    /\ cv_idx = <<>>
    /\ fold_size = 0
    /\ fold_i = 0
    /\ train_rows = <<>>
    /\ test_rows = <<>>

\* --------------------------------------------- one tree, fitted directly
\* Row order is immaterial to fit (a subset is only counted, sorted and
\* averaged), so the rows of x are listed in nondecreasing order.
RECURSIVE RowKey(_, _)
RowKey(row, f) ==
    IF f >= n_features THEN 0
    ELSE row[f] + (MaxVal + 1) * RowKey(row, f + 1)

TreeXs ==
    {x_ \in [1 .. TreeRows -> FeatureRows] :
        \A r \in 1 .. (TreeRows - 1) : RowKey(x_[r], 0) <= RowKey(x_[r + 1], 0)}
TreeYs == {Vector(d) : d \in [1 .. TreeRows -> 0 .. TreeMaxLabel]}

MaxFeaturesChoices ==
    {Sqrt} \cup {Literal(k) : k \in 1 .. (IF MaxLiteral < n_features THEN MaxLiteral ELSE n_features)}

\* MixedRandomTree.__init__ (lines 145-160)
TreeInit ==
    /\ pc = "idle"
    /\ n_estimators = 0
    /\ min_samples_leaf \in 1 .. MaxMinLeaf
    /\ max_features \in MaxFeaturesChoices
    /\ class_targets \in SUBSET {0}
    /\ n_targets = 0
    /\ class_labels = << >>
    /\ estimators = <<>>
    /\ x = <<>>
    /\ y = <<>>
    /\ est_i = 0
    /\ tx = <<>>
    /\ ty = <<>>
    /\ tree_n_targets = 0
    /\ splitter_max_features = max_features
    /\ split_queue = <<>>
    /\ split_f = <<>>
    /\ split_t = <<>>
    /\ leaf_value = <<>>
    /\ left_child = <<>>
    /\ right_child = <<>>
    /\ n_i = <<>>
    /\ i = 0
    /\ node_rows = <<>>
    /\ m = EmptyTree
    /\ pred = NoPred
    /\ NoSplitter
    /\ NoCrossValidation

\* MixedRandomTree.fit called on a training set (lines 162-183)
TreeFit ==
    /\ pc = "idle"
    /\ \E x_ \in TreeXs, y_ \in TreeYs : TreeFitStart(x_, Reshape(y_))
    /\ pc' = "tree_loop"
    /\ UNCHANGED <<splitter_vars, cv_vars, cfg_vars, forest_vars, pred>>

\* MixedRandomTree.predict on one row (lines 227-245).  predict only reads the
\* tree, so the value returned by one call is kept and no second call is taken.
TreePredict ==
    /\ pc = "tree_done"
    /\ pred = NoPred
    /\ \E row \in FeatureRows :
          pred' = [call |-> "tree_predict", out |-> tree_predict(m, row)]
    /\ UNCHANGED <<pc, splitter_vars, cv_vars, cfg_vars, forest_vars, tree_vars>>

TreeNext == TreeFit \/ FitStep \/ FitEnd \/ TreePredict

TreeSpec == TreeInit /\ [][TreeNext]_vars

\* ------------------------------------------------ properties of one tree
\* nodes recorded so far whose feature is truthy: the nodes fit gives children
Internal == {k \in 0 .. (Len(split_f) - 1) : Truthy(At(split_f, k))}
LeftRows(k) == LeftIdx(At(node_rows, k), At(split_f, k), At(split_t, k))
RightRows(k) == RightIdx(At(node_rows, k), At(split_f, k), At(split_t, k))
n_train == Len(tx)

\* C1: every Internal node of a tree has at least min_samples_leaf rows in its
\* left child subset and in its right child subset.
C1_ChildrenHaveMinSamples ==
    \A k \in Internal :
        /\ Cardinality(LeftRows(k)) >= min_samples_leaf
        /\ Cardinality(RightRows(k)) >= min_samples_leaf

\* C2: in a fitted tree the subsets of the leaves are pairwise disjoint, cover
\* the training set, their counts sum to n_train, and predict routes every
\* training row to the leaf whose subset holds it.
Leaves == {k \in 0 .. (Len(m.f) - 1) : ~Truthy(At(m.f, k))}

C2_LeavesPartitionTrainingSet ==
    pc = "tree_done" =>
        /\ \A a, b \in Leaves : a # b => At(node_rows, a) \cap At(node_rows, b) = {}
        /\ UNION {At(node_rows, k) : k \in Leaves} = 1 .. n_train
        /\ SumOver(Leaves, [k \in Leaves |-> At(m.n, k)]) = n_train
        /\ \A r \in 1 .. n_train :
              LET k == traverse(m, tx[r], 0) IN k \in Leaves /\ r \in At(node_rows, k)

C2_Witness ==
    /\ pc = "tree_done"
    /\ Cardinality(Leaves) >= 3
    /\ \A k \in Leaves : At(node_rows, k) # {}

\* C8: a node for which the splitter returned a feature (any index, 0 included)
\* is Internal: it has child ids and its two partitions were enqueued; only
\* NoSplit makes a leaf.
C8_SplitMakesInternal ==
    \A k \in 0 .. (Len(split_f) - 1) :
        At(split_f, k) # None =>
            /\ At(left_child, k) # None
            /\ At(right_child, k) # None

\* the subset that has or will have node id c: already dequeued, or waiting
SubsetOfId(c) ==
    IF c < i THEN At(node_rows, c)
    ELSE IF c - i < Len(split_queue) THEN split_queue[c - i + 1]
    ELSE {}

\* C9: ids follow dequeue order with the root at 0; an Internal node k has
\* right = left + 1 and left > k, the two ids are those of the nodes made from
\* its left and right partitions, and once the queue is empty every child id is
\* an index of the arrays, so predict never follows a missing child.
C9_ChildIdsAreDequeueOrder ==
    /\ i = Len(split_f)
    /\ (i > 0 => At(node_rows, 0) = 1 .. n_train)
    /\ \A k \in Internal :
          /\ At(right_child, k) = At(left_child, k) + 1
          /\ At(left_child, k) > k
          /\ At(right_child, k) < i + Len(split_queue)
          /\ SubsetOfId(At(left_child, k)) = LeftRows(k)
          /\ SubsetOfId(At(right_child, k)) = RightRows(k)
    /\ (pc = "tree_done" =>
          /\ \A k \in Internal : At(m.l, k) < Len(m.f) /\ At(m.r, k) < Len(m.f)
          /\ \A row \in FeatureRows : traverse(m, row, 0) # None)

C9_Witness ==
    /\ pc = "tree_done"
    /\ \E k \in Internal : k > 0 /\ At(m.l, k) = 3 /\ LeftRows(k) # {} /\ RightRows(k) # {}

\* the work left: a subset of n rows can make at most 2n - 1 nodes
RECURSIVE Work(_)
Work(queue) ==
    IF queue = <<>> THEN 0 ELSE 2 * Cardinality(Head(queue)) - 1 + Work(Tail(queue))

\* C10: fit terminates: every split gives each child at least one row, so each
\* enqueued subset is strictly smaller than its parent, every iteration lowers
\* the work left, at most 2 * n_train - 1 nodes are made, and a root that is
\* not split gives a single-leaf tree.
C10_Bounded ==
    /\ \A k \in 1 .. Len(split_queue) : split_queue[k] # {}
    /\ \A k \in Internal :
          /\ LeftRows(k) # {}
          /\ RightRows(k) # {}
          /\ Cardinality(LeftRows(k)) < Cardinality(At(node_rows, k))
          /\ Cardinality(RightRows(k)) < Cardinality(At(node_rows, k))
    /\ (pc \in {"tree_loop", "tree_done"} => i + Work(split_queue) <= 2 * n_train - 1)
    /\ (pc = "tree_done" /\ ~Truthy(At(m.f, 0)) => Len(m.f) = 1)

C10_FitTerminates ==
    /\ []C10_Bounded
    /\ [][pc = "tree_loop" /\ pc' = "tree_loop" => Work(split_queue') < Work(split_queue)]_vars

\* --------------------------------------------------- MixedRandomForest
Targets == 0 .. (n_targets - 1)

\* np.unique(y[:, t]) as a set
UniqueLabels(y_, t) == {y_[r][t] : r \in 1 .. Len(y_)}

\* lines 290-292: class_labels[t] is set for the classification targets of y
UpdateClassLabels(labels, y_, nt) ==
    LET new == {t \in class_targets : t < nt} IN
    [t \in (DOMAIN labels) \cup new |->
        IF t \in new THEN UniqueLabels(y_, t) ELSE labels[t]]

\* order of two fractions
FracLess(a, b) == a[1] * b[2] < b[1] * a[2]

\* a slip: the largest of the most frequent values
mode_largest(votes) ==
    LET idx == 1 .. Len(votes)
        count(v) == Cardinality({k \in idx : votes[k] = v})
        top == {votes[k] : k \in {k \in idx : \A j \in idx : count(votes[j]) <= count(votes[k])}}
    IN CHOOSE v \in top : \A w \in top : w = v \/ FracLess(w, v)

\* scipy.stats.mode over a sequence of values: the most frequent value, the
\* smallest one when several are equally frequent
mode(votes) ==
    LET idx == 1 .. Len(votes)
        count(v) == Cardinality({k \in idx : votes[k] = v})
        top == {votes[k] : k \in {k \in idx : \A j \in idx : count(votes[j]) <= count(votes[k])}}
    IN CHOOSE v \in top : \A w \in top : w = v \/ FracLess(v, w)

\* sum and arithmetic mean of a sequence of fractions
RECURSIVE SumFrac(_)
SumFrac(vals) ==
    IF vals = <<>> THEN <<0, 1>>
    ELSE LET a == Head(vals)
             b == SumFrac(Tail(vals))
         IN Frac(a[1] * b[2] + b[1] * a[2], a[2] * b[2])

mean(vals) == LET s_ == SumFrac(vals) IN Frac(s_[1], s_[2] * Len(vals))

\* pred[j, t, :]: what each of the n_estimators slots holds for target t (a slot
\* no tree has filled holds the 0 of np.zeros)
Votes(row, t) ==
    [k \in 1 .. n_estimators |->
        IF k <= Len(estimators) THEN tree_predict(estimators[k], row)[t] ELSE <<0, 1>>]

\* MixedRandomForest.predict for one test row (lines 311-326)
forest_predict(row) ==
    [t \in Targets |->
        IF t \in class_targets THEN mode(Votes(row, t)) ELSE mean(Votes(row, t))]

\* a slip: the counts divided by their number instead of n_estimators
proba_over_len(votes, minlength) ==
    LET idx == 1 .. Len(votes)
        freq == BinCount(idx, [k \in idx |-> AsInt(votes[k])], minlength)
    IN [k \in 1 .. Len(freq) |-> Frac(freq[k], Len(freq))]

\* lines 339-341: the vote counts of one classification target over n_estimators
proba(votes, minlength) ==
    LET idx == 1 .. Len(votes)
        freq == BinCount(idx, [k \in idx |-> AsInt(votes[k])], minlength)
    IN [k \in 1 .. Len(freq) |-> Frac(freq[k], n_estimators)]

\* MixedRandomForest.predict_proba for one test row (lines 329-345)
forest_predict_proba(row) ==
    [t \in Targets |->
        IF t \in class_targets
        THEN proba(Votes(row, t), Cardinality(class_labels[t]))
        ELSE mean(Votes(row, t))]

ForestFeatureRows == [Features -> 0 .. ForestMaxVal]

ForestXs ==
    {x_ \in [1 .. ForestRows -> ForestFeatureRows] :
        \A r \in 1 .. (ForestRows - 1) : RowKey(x_[r], 0) <= RowKey(x_[r + 1], 0)}

ForestYs ==
    {Vector(d) : d \in [1 .. ForestRows -> 0 .. MaxLabel]}
    \cup UNION {{Matrix(d) : d \in [1 .. ForestRows -> [0 .. (nt - 1) -> 0 .. MaxLabel]]} :
                nt \in 2 .. MaxTargets}

\* the locals of a finished MixedRandomTree.fit call are gone
TreeCleared ==
    /\ tx' = <<>>
    /\ ty' = <<>>
    /\ tree_n_targets' = 0
    /\ splitter_max_features' = max_features
    /\ split_queue' = <<>>
    /\ split_f' = <<>>
    /\ split_t' = <<>>
    /\ leaf_value' = <<>>
    /\ left_child' = <<>>
    /\ right_child' = <<>>
    /\ n_i' = <<>>
    /\ node_rows' = <<>>
    /\ i' = 0
    /\ m' = EmptyTree

\* MixedRandomForest.__init__ (lines 267-280)
Init ==
    /\ pc = "idle"
    /\ n_estimators \in 1 .. MaxEstimators
    /\ min_samples_leaf \in 1 .. MaxMinLeaf
    /\ max_features = Sqrt
    /\ class_targets \in SUBSET (0 .. (MaxTargets - 1))
    /\ n_targets = 0
    /\ class_labels = << >>
    /\ estimators = <<>>
    /\ x = <<>>
    /\ y = <<>>
    /\ est_i = 0
    /\ tx = <<>>
    /\ ty = <<>>
    /\ tree_n_targets = 0
    /\ splitter_max_features = max_features
    /\ split_queue = <<>>
    /\ split_f = <<>>
    /\ split_t = <<>>
    /\ leaf_value = <<>>
    /\ left_child = <<>>
    /\ right_child = <<>>
    /\ n_i = <<>>
    /\ i = 0
    /\ node_rows = <<>>
    /\ m = EmptyTree
    /\ pred = NoPred
    /\ NoSplitter
    /\ NoCrossValidation

\* MixedRandomForest.fit, line 284: a call starts by dropping the old trees.
\* The arguments are first read on line 286, so they are drawn there.
ForestFit ==
    /\ pc = "idle"
    /\ pred = NoPred
    /\ estimators' = <<>>
    /\ x' = <<>>
    /\ y' = <<>>
    /\ pred' = NoPred
    /\ pc' = "fit_called"
    /\ UNCHANGED <<splitter_vars, cv_vars, cfg_vars, n_targets, class_labels, est_i, tree_vars>>

\* MixedRandomForest.fit, lines 286-294: shape of y, n_targets, class_labels
ForestFitLabels ==
    /\ pc = "fit_called"
    /\ \E x_ \in ForestXs, y_ \in ForestYs :
          LET y2 == Reshape(y_)
              nt == Cardinality(DOMAIN y2[1])
          IN /\ x' = x_
             /\ y' = y2
             /\ n_targets' = nt
             /\ class_labels' = UpdateClassLabels(class_labels, y2, nt)
    /\ est_i' = 0
    /\ pc' = "forest_loop"
    /\ UNCHANGED <<splitter_vars, cv_vars, cfg_vars, estimators, tree_vars, pred>>

\* lines 296-307: a new tree is fitted on a bootstrap sample of the rows
EstimatorFit ==
    /\ pc = "forest_loop"
    /\ est_i < n_estimators
    /\ \E sample_idx \in [1 .. Len(x) -> 1 .. Len(x)] :
          TreeFitStart([r \in 1 .. Len(x) |-> x[sample_idx[r]]],
                       [r \in 1 .. Len(x) |-> y[sample_idx[r]]])
    /\ pc' = "tree_loop"
    /\ UNCHANGED <<splitter_vars, cv_vars, cfg_vars, forest_vars, pred>>

\* line 308: the fitted tree joins the forest
EstimatorAppend ==
    /\ pc = "tree_done"
    /\ estimators' = Append(estimators, m)
    /\ est_i' = est_i + 1
    /\ TreeCleared
    /\ pc' = "forest_loop"
    /\ UNCHANGED <<splitter_vars, cv_vars, cfg_vars, n_targets, class_labels, x, y, pred>>

\* the loop of line 296 is over: fit returns
ForestFitReturn ==
    /\ pc = "forest_loop"
    /\ est_i >= n_estimators
    /\ pc' = "idle"
    /\ UNCHANGED <<splitter_vars, cv_vars, cfg_vars, forest_vars, tree_vars, pred>>

\* MixedRandomForest.predict on one test row.  predict and predict_proba only
\* read the forest: the value one call returned is kept, and the calls that
\* could follow it are those that can follow the fit before it.
Predict ==
    /\ pc = "idle"
    /\ pred = NoPred
    /\ \E row \in ForestFeatureRows :
          pred' = [call |-> "predict", out |-> forest_predict(row)]
    /\ UNCHANGED <<pc, splitter_vars, cv_vars, cfg_vars, forest_vars, tree_vars>>

\* MixedRandomForest.predict_proba on one test row
PredictProba ==
    /\ pc = "idle"
    /\ pred = NoPred
    /\ \E row \in ForestFeatureRows :
          pred' = [call |-> "predict_proba", out |-> forest_predict_proba(row)]
    /\ UNCHANGED <<pc, splitter_vars, cv_vars, cfg_vars, forest_vars, tree_vars>>

Next ==
    \/ ForestFit
    \/ ForestFitLabels
    \/ EstimatorFit
    \/ FitStep
    \/ FitEnd
    \/ EstimatorAppend
    \/ ForestFitReturn
    \/ Predict
    \/ PredictProba

Spec == Init /\ [][Next]_vars

\* ------------------------------------------------ properties of a forest
\* a fit call has returned and nothing has been called since, or a predict
Fitted == pc = "idle" /\ Len(estimators) = n_estimators /\ x # <<>>
ClassTargetsOfY == {t \in class_targets : t < n_targets}
LabelOf(v) == v[1]

\* C3: after fit, the label predict returns for a classification target is one
\* of the label values of that target in the training y.
C3_PredictedLabelWasObserved ==
    Fitted /\ pred.call = "predict" =>
        \A t \in ClassTargetsOfY :
            /\ pred.out[t][2] = 1
            /\ LabelOf(pred.out[t]) \in UniqueLabels(y, t)

C3_Witness ==
    /\ Fitted
    /\ pred.call = "predict"
    /\ \E t \in ClassTargetsOfY : UniqueLabels(y, t) = {0, 1} /\ LabelOf(pred.out[t]) = 1
    /\ \E k \in 1 .. Len(estimators) : Len(estimators[k].f) > 1

\* C4: the vector predict_proba returns for a classification target has as
\* many entries as the target has distinct label values in the training y,
\* whatever the label values are.
C4_ProbaLengthIsLabelCount ==
    Fitted /\ pred.call = "predict_proba" =>
        \A t \in ClassTargetsOfY : Len(pred.out[t]) = Cardinality(UniqueLabels(y, t))

\* C5: the entries predict_proba returns for a classification target are
\* non-negative and sum to 1.
C5_ProbaSumsToOne ==
    Fitted /\ pred.call = "predict_proba" =>
        \A t \in ClassTargetsOfY :
            /\ \A k \in 1 .. Len(pred.out[t]) : pred.out[t][k][1] >= 0 /\ pred.out[t][k][2] > 0
            /\ SumFrac(pred.out[t]) = <<1, 1>>

C5_Witness ==
    /\ Fitted
    /\ pred.call = "predict_proba"
    /\ \E t \in ClassTargetsOfY : \E k \in 1 .. Len(pred.out[t]) :
          pred.out[t][k][1] > 0 /\ pred.out[t][k][1] < pred.out[t][k][2]

\* number of votes for v
VoteCount(votes, v) == Cardinality({k \in 1 .. Len(votes) : votes[k] = v})

\* C6: for a classification target predict returns a label no other label
\* outvotes, and among the labels with as many votes it is the smallest.
C6_PredictIsSmallestMajority ==
    Fitted =>
        /\ (pred.call = "predict" => \E row \in ForestFeatureRows : pred.out = forest_predict(row))
        /\ \A row \in ForestFeatureRows : \A t \in ClassTargetsOfY :
              \A votes \in {Votes(row, t)} : \A got \in {forest_predict(row)[t]} :
                 /\ VoteCount(votes, got) > 0
                 /\ \A k \in 1 .. Len(votes) :
                       /\ VoteCount(votes, votes[k]) <= VoteCount(votes, got)
                       /\ (VoteCount(votes, votes[k]) = VoteCount(votes, got)
                              => LabelOf(got) <= LabelOf(votes[k]))

C6_Witness ==
    /\ Fitted
    /\ pred.call = "predict"
    /\ n_estimators = 3
    /\ \E row \in ForestFeatureRows : \E t \in ClassTargetsOfY :
          /\ pred.out = forest_predict(row)
          /\ VoteCount(Votes(row, t), <<1, 1>>) = 2
          /\ VoteCount(Votes(row, t), <<0, 1>>) = 1
          /\ pred.out[t] = <<1, 1>>

\* C7: after any sequence of fit calls the forest holds n_estimators trees,
\* the n_targets of the last y, and class_labels entries for exactly the
\* classification targets of the last y, with the labels of the last y.
C7_RefitOverwritesState ==
    Fitted =>
        /\ Len(estimators) = n_estimators
        /\ n_targets = Cardinality(DOMAIN y[1])
        /\ DOMAIN class_labels = ClassTargetsOfY
        /\ \A t \in ClassTargetsOfY : class_labels[t] = UniqueLabels(y, t)

\* ------------------------------------- the two MixedSplitter classes
\* the variables of a tree other than the splitter's max_features
tree_rest == <<tx, ty, tree_n_targets, split_queue, split_f, split_t, leaf_value,
               left_child, right_child, n_i, i, node_rows, m>>

\* the files that define a class MixedSplitter
Impls == {"core.py", "core/MixedSplitter.py"}

\* the values of max_features besides 'sqrt' and an integer: 'log2', None (all
\* the features) and a float, the fraction q / FractionDen
Log2 == [tag |-> "log2", n |-> 0]
AllFeatures == [tag |-> "None", n |-> 0]
Fraction(q) == [tag |-> "float", n |-> q]

\* int(np.sqrt(n)) and int(np.log2(n)) for n >= 1
FloorSqrt(n) == Max({k \in 0 .. n : k * k <= n})
FloorLog2(n) == Max({k \in 0 .. n : 2 ^ k <= n})

\* core/MixedSplitter.py split(), lines 88-95, on n columns
module_resolve(mf, n) ==
    CASE mf.tag = "sqrt" -> Literal(FloorSqrt(n))
      [] mf.tag = "log2" -> Literal(FloorLog2(n))
      [] mf.tag = "float" -> Literal((mf.n * n) \div FractionDen)
      [] mf.tag = "None" -> Literal(n)
      [] OTHER -> mf

\* np.random.choice(np.arange(n), max_features, replace=False) followed by the
\* loop over its result raises unless max_features is an integer <= n
DrawRaises(mf, n) == mf.tag # "int" \/ mf.n > n

SplitterConfigs ==
    {Sqrt, Log2, AllFeatures}
    \cup {Fraction(q) : q \in 1 .. FractionDen}
    \cup {Literal(k) : k \in 1 .. MaxLiteral}

\* everything but the splitter and cross_validation: nothing is built
NoForest ==
    /\ n_estimators = 0
    /\ min_samples_leaf = 1
    /\ class_targets = {}
    /\ n_targets = 0
    /\ class_labels = << >>
    /\ estimators = <<>>
    /\ x = <<>>
    /\ y = <<>>
    /\ est_i = 0
    /\ tx = <<>>
    /\ ty = <<>>
    /\ tree_n_targets = 0
    /\ split_queue = <<>>
    /\ split_f = <<>>
    /\ split_t = <<>>
    /\ leaf_value = <<>>
    /\ left_child = <<>>
    /\ right_child = <<>>
    /\ n_i = <<>>
    /\ i = 0
    /\ node_rows = <<>>
    /\ m = EmptyTree
    /\ pred = NoPred

SplitterInit ==
    /\ pc = "idle"
    /\ NoForest
    /\ max_features = Sqrt
    /\ splitter_max_features = Sqrt
    /\ NoSplitter
    /\ NoCrossValidation

\* MixedSplitter.__init__ of either file (core.py lines 7-21): the fields
\* n_features and max_features are stored as given
SplitterNew ==
    /\ pc = "idle"
    /\ \E impl \in Impls, n \in 1 .. MaxFeatureCount, mf \in SplitterConfigs :
          /\ splitter_impl' = impl
          /\ splitter_n_features' = n
          /\ max_features' = mf
          /\ splitter_max_features' = mf
    /\ n_split_calls' = 0
    /\ pc' = "splitter"
    /\ UNCHANGED <<n_estimators, min_samples_leaf, class_targets, forest_vars, tree_rest,
                   pred, cv_vars>>

\* core.py MixedSplitter.split (lines 23-29) and the draw of lines 43-47;
\* early: the subset has at most min_samples_leaf rows and line 33 returns
CoreSplit ==
    /\ pc = "splitter"
    /\ splitter_impl = "core.py"
    /\ n_split_calls < MaxSplitCalls
    /\ \E mf \in {core_resolve(splitter_max_features, splitter_n_features)} :
          /\ splitter_max_features' = mf
          /\ \E early \in BOOLEAN :
                pc' = IF ~early /\ DrawRaises(mf, splitter_n_features)
                      THEN "split_raised" ELSE pc
    /\ n_split_calls' = n_split_calls + 1
    /\ UNCHANGED <<cfg_vars, forest_vars, tree_rest, pred, splitter_impl,
                   splitter_n_features, cv_vars>>

\* core/MixedSplitter.py MixedSplitter.split (lines 86-97) and the draw of
\* lines 112-116
ModuleSplit ==
    /\ pc = "splitter"
    /\ splitter_impl = "core/MixedSplitter.py"
    /\ n_split_calls < MaxSplitCalls
    /\ \E mf \in {module_resolve(splitter_max_features, splitter_n_features)} :
          /\ splitter_max_features' = mf
          /\ \E early \in BOOLEAN :
                pc' = IF ~early /\ DrawRaises(mf, splitter_n_features)
                      THEN "split_raised" ELSE pc
    /\ n_split_calls' = n_split_calls + 1
    /\ UNCHANGED <<cfg_vars, forest_vars, tree_rest, pred, splitter_impl,
                   splitter_n_features, cv_vars>>

SplitterNext == SplitterNew \/ CoreSplit \/ ModuleSplit

SplitterSpec == SplitterInit /\ [][SplitterNext]_vars

\* the integer the configuration stands for on n columns
ResolvedValue(mf, n) ==
    CASE mf.tag = "sqrt" -> CeilSqrt(n)
      [] mf.tag = "log2" -> FloorLog2(n)
      [] mf.tag = "float" -> (mf.n * n) \div FractionDen
      [] mf.tag = "None" -> n
      [] OTHER -> mf.n

\* C11: in either splitter class, from the first split call on max_features is
\* one integer, the same at every later call: ceil(sqrt(n_features)) for 'sqrt',
\* floor(log2(n_features)) for 'log2', floor(p * n_features) for a fraction p,
\* n_features for all, and a literal integer unchanged.
C11_MaxFeaturesResolvedOnce ==
    n_split_calls >= 1 =>
        splitter_max_features = Literal(ResolvedValue(max_features, splitter_n_features))

\* ---------------------------------------------------- cross_validation
\* np.random.permutation(n): the orders of the rows 1 .. n
RowOrders(n) ==
    {p \in [1 .. n -> 1 .. n] : \A a, b \in 1 .. n : a # b => p[a] # p[b]}

\* the rows idx holds at the 0-based positions first .. (last - 1)
RowsAt(first, last) == {cv_idx[k + 1] : k \in first .. (last - 1)}

CVInit ==
    /\ pc = "idle"
    /\ NoForest
    /\ max_features = Sqrt
    /\ splitter_max_features = Sqrt
    /\ NoSplitter
    /\ NoCrossValidation

\* cross_validation, lines 379-387: the permutation is drawn, fold_size is
\* int(idx.size / folds)
CVCall ==
    /\ pc = "idle"
    /\ \E k \in 2 .. MaxFolds : \E n \in k .. MaxCVRows :
          /\ cv_n' = n
          /\ folds' = k
          /\ cv_idx' \in RowOrders(n)
          /\ fold_size' = n \div k
    /\ fold_i' = 0
    /\ train_rows' = <<>>
    /\ test_rows' = <<>>
    /\ pc' = "cv_loop"
    /\ UNCHANGED <<cfg_vars, forest_vars, tree_vars, pred, splitter_vars>>

\* lines 391-406: one fold; the copy of the model is fitted on train_idx and
\* its predictions are written to y_hat at test_idx
CVFold ==
    /\ pc = "cv_loop"
    /\ fold_i < folds
    /\ LET fold_start == fold_i * fold_size
           fold_stop == Min({(fold_i + 1) * fold_size, cv_n})
           test_idx == RowsAt(fold_start, fold_stop)
           train_idx == RowsAt(0, fold_start) \cup RowsAt(fold_stop, cv_n)
       IN /\ train_rows' = Append(train_rows, train_idx)
          /\ test_rows' = Append(test_rows, test_idx)
    /\ fold_i' = fold_i + 1
    /\ UNCHANGED <<pc, cfg_vars, forest_vars, tree_vars, pred, splitter_vars,
                   cv_n, folds, cv_idx, fold_size>>

\* lines 408-416: the loop is over, y_hat is scored and the scores returned
CVReturn ==
    /\ pc = "cv_loop"
    /\ fold_i >= folds
    /\ pc' = "cv_done"
    /\ UNCHANGED <<cfg_vars, forest_vars, tree_vars, pred, splitter_vars, cv_vars>>

CVNext == CVCall \/ CVFold \/ CVReturn

CVSpec == CVInit /\ [][CVNext]_vars

\* the folds whose held-out rows include row r: each wrote y_hat[r] once
FoldsOf(r) == {k \in 1 .. Len(test_rows) : r \in test_rows[k]}

\* C12: when cross_validation returns, every row belongs to exactly one
\* held-out fold, so it received exactly one prediction, and the model that
\* predicted it was trained on rows outside that fold only.
C12_FoldsPartitionRows ==
    pc = "cv_done" =>
        /\ \A r \in 1 .. cv_n : Cardinality(FoldsOf(r)) = 1
        /\ \A k \in 1 .. Len(test_rows) : train_rows[k] \cap test_rows[k] = {}

====
